---- MODULE Spec2Model ----
(***************************************************************************)
(* TCP chat relay: the server's accept loop, per-connection session        *)
(* (inbound read/publish loop and the spawned outbound forwarding task)    *)
(* over one tokio broadcast channel, and the client's three activities     *)
(* (stdin-reader, sender, connection-reader) over one tokio mpsc channel.  *)
(***************************************************************************)
EXTENDS Integers, Sequences, FiniteSets, TLC

(***************************************************************************)
(* Bounds of the model and constants of the program.                       *)
(***************************************************************************)
\* Lines that clients put on the wire in a run of Spec / FairSpec.
MaxPublish == 2
\* Lines that clients put on the wire in a long run (LagSpec, FairLagSpec,
\* IsoSpec): more than the broadcast channel retains, so that a Receiver can
\* be overrun.
MaxPublishLag == 17
\* Lines read from standard input in a run of ClientSpec.
MaxTyped == 3
\* Lines read from standard input in a long run of the client
\* (LongClientSpec): enough to fill the queue behind a sender that is busy.
MaxTypedLong == 17
\* Lines the server sends to the client in a run of ClientSpec.
MaxServerLines == 2
\* mpsc::channel::<String>(10)
QueueCapacity == 10
\* broadcast::channel::<String>(10): the capacity as main passes it.
HubCapacity == 10
\* `let (tx, _rx) = ...`: main keeps one Receiver alive that never receives.
\* (NoMainRx: the variant `let (tx, _) = ...`, which drops it at once.)
NoMainRx == 1 - 1
MainRx == 1

\* Connections, in the order in which accept() returns them.
Conns == {1, 2, 3}
\* Connections of the runs of Spec and FairSpec.
SmallConns == {1, 2}
\* Connections of the long runs of LagSpec and FairLagSpec; the first one
\* types, the others listen.
LagConns == {1, 2}
Listeners == LagConns \ {1}

\* Text is a sequence of characters.  A line ends with its newline, as
\* read_line leaves it.
NL == "\n"
Lines == {<<NL>>, <<"h", NL>>}
\* Lines typed on the client's standard input.
TypedLines == {<<NL>>, <<" ", NL>>, <<"h", NL>>}

VARIABLES
    serverUp,   \* main's accept loop is running (the process is alive)
    inPc,       \* per connection: the inbound loop of handle_client
    outPc,      \* per connection: the spawned outbound task
    sub,        \* per connection: channel position when tx.subscribe() ran
    next,       \* per connection: position of its broadcast Receiver
    cur,        \* per connection: msg of the current outbound iteration and
                \* the channel position it was received from
    wlock,      \* per connection: the writer Mutex is held
    published,  \* every value sent on the broadcast channel, in send order
    sendRet,    \* what the last tx.send returned: Ok(n) as n, Err as 0
    written     \* per connection: what write_all has put on its socket

VARIABLES
    clientUp,   \* main has not returned (the runtime and its tasks run)
    stdinPc,    \* the stdin-reader task
    input,      \* the stdin-reader's line, while it waits in tx.send
    queue,      \* the mpsc channel between stdin-reader and sender
    senderPc,   \* the sender task
    msg,        \* the sender's message of the current iteration
    readerPc,   \* main's loop over the lines of the server
    typed,      \* every line read_line has returned from standard input
    handed,     \* every line the stdin-reader has passed to tx.send
    sent,       \* every line write_all has put on the server connection
    printed     \* everything printed to standard output

cvars == <<clientUp, stdinPc, input, queue, senderPc, msg, readerPc, typed,
           handed, sent, printed>>

svars == <<serverUp, inPc, outPc, sub, next, cur, wlock,
           published, sendRet, written>>

vars == <<svars, cvars>>

(***************************************************************************)
(* Text helpers.                                                           *)
(***************************************************************************)
\* The peer address of a connection, as Display prints it.
Addr(c) == <<"p", IF c = 1 THEN "1" ELSE IF c = 2 THEN "2" ELSE "3">>

\* The broadcast format the design asks for: "[addr]: text".
Format(c, line) == <<"[">> \o Addr(c) \o <<"]", ":", " ">> \o line

\* s contains t as a contiguous run of characters.
Contains(s, t) ==
    \E i \in 0..(Len(s) - Len(t)) : SubSeq(s, i + 1, i + Len(t)) = t

(***************************************************************************)
(* The broadcast channel (tokio::sync::broadcast).                         *)
(***************************************************************************)
HubTail == Len(published)

\* usize::next_power_of_two: the smallest power of two that is >= n.
RECURSIVE PowerOfTwoFrom(_, _)
PowerOfTwoFrom(p, n) == IF p >= n THEN p ELSE PowerOfTwoFrom(2 * p, n)
NextPowerOfTwo(n) == PowerOfTwoFrom(1, n)

\* The slots of the channel's ring buffer: broadcast::channel rounds the
\* capacity it is given up to a power of two (the slot of position p is
\* p & (slots - 1)), so the channel retains that many values.
HubSlots == NextPowerOfTwo(HubCapacity)

Running(c) == outPc[c] \in {"recv", "lock", "write", "blocked"}

\* Receivers alive: main's _rx and the rx of every running outbound task.
ReceiverCount == MainRx + Cardinality({c \in Conns : Running(c)})

\* Sender::send: an error when no Receiver exists, else the value is stored
\* (overwriting the oldest slot) and send returns at once.
\* (SendOkUnlessFull: the variant of a channel that refuses a value while a
\* Receiver's backlog is full.)
SendOkUnlessFull ==
    /\ ReceiverCount > 0
    /\ \A c \in Conns : Running(c) => HubTail - next[c] < HubSlots
SendOk == ReceiverCount > 0

\* Receiver::recv at position pos.
RecvLagged(pos) == HubTail - pos > HubSlots
RecvReady(pos) == pos < HubTail

\* The position a Receiver is moved to by Err(Lagged).
LagNext(pos) == HubTail - HubSlots

\* The position after one successful recv.  (RecvNextStays, RecvNextSkips:
\* the variants that are off by one.)
RecvNextStays(pos) == pos
RecvNextSkips(pos) == pos + 2
RecvNext(pos) == pos + 1

\* The values the channel still holds for a Receiver at position pos: those
\* after pos whose slot has not been overwritten.
Retained(pos) == {i \in (pos + 1)..HubTail : i > HubTail - HubSlots}

\* The value a successful recv at position pos returns.
RecvMsg(pos) == published[pos + 1].line

(***************************************************************************)
(* Server: main.                                                           *)
(***************************************************************************)
SInit ==
    /\ serverUp = TRUE
    /\ inPc = [c \in Conns |-> "idle"]
    /\ outPc = [c \in Conns |-> "idle"]
    /\ sub = [c \in Conns |-> 0]
    /\ next = [c \in Conns |-> 0]
    /\ cur = [c \in Conns |-> [pos |-> 0, msg |-> <<>>]]
    /\ wlock = [c \in Conns |-> FALSE]
    /\ published = <<>>
    /\ sendRet = 0
    /\ written = [c \in Conns |-> <<>>]

\* listener.accept() returns connection c: subscribe, spawn handle_client,
\* which spawns the outbound task and enters its read loop.
\* (AcceptFromStart: the variant of a channel whose new Receiver starts at the
\* oldest value instead of the tail.)
AcceptFromStart(c) ==
    /\ serverUp
    /\ inPc[c] = "idle"
    /\ \A d \in Conns : d < c => inPc[d] # "idle"
    /\ inPc' = [inPc EXCEPT ![c] = "read"]
    /\ outPc' = [outPc EXCEPT ![c] = "recv"]
    /\ sub' = [sub EXCEPT ![c] = HubTail]
    /\ next' = [next EXCEPT ![c] = 0]
    /\ UNCHANGED cvars
    /\ UNCHANGED <<serverUp, cur, wlock, published, sendRet,
                   written>>

Accept(c) ==
    /\ serverUp
    /\ inPc[c] = "idle"
    /\ \A d \in Conns : d < c => inPc[d] # "idle"
    /\ inPc' = [inPc EXCEPT ![c] = "read"]
    /\ outPc' = [outPc EXCEPT ![c] = "recv"]
    /\ sub' = [sub EXCEPT ![c] = HubTail]
    /\ next' = [next EXCEPT ![c] = HubTail]
    /\ UNCHANGED cvars
    /\ UNCHANGED <<serverUp, cur, wlock, published, sendRet,
                   written>>

\* listener.accept().await? fails: main returns, the runtime is dropped and
\* every task with it.
AcceptError ==
    /\ serverUp
    /\ serverUp' = FALSE
    /\ UNCHANGED cvars
    /\ UNCHANGED <<inPc, outPc, sub, next, cur, wlock, published,
                   sendRet, written>>

(***************************************************************************)
(* Server: handle_client, the inbound loop.                                *)
(***************************************************************************)
\* The publish of one inbound iteration: tx.send(line.clone())?
Publish(c, line) ==
    IF SendOk
    THEN /\ published' = Append(published, [from |-> c, line |-> line])
         /\ sendRet' = ReceiverCount
         /\ inPc' = inPc
    ELSE /\ published' = published
         /\ sendRet' = 0
         /\ inPc' = [inPc EXCEPT ![c] = "send_failed"]

\* read_line returns a line (bytes_read > 0); it is sent on the channel.
InRead(c, line) ==
    /\ serverUp
    /\ inPc[c] = "read"
    /\ Publish(c, line)
    /\ UNCHANGED cvars
    /\ UNCHANGED <<serverUp, outPc, sub, next, cur, wlock, written>>

\* read_line returns 0 bytes: break, handle_client returns Ok(()).
InEof(c) ==
    /\ serverUp
    /\ inPc[c] = "read"
    /\ inPc' = [inPc EXCEPT ![c] = "eof"]
    /\ UNCHANGED cvars
    /\ UNCHANGED <<serverUp, outPc, sub, next, cur, wlock,
                   published, sendRet,
                   written>>

\* read_line fails: `?` returns the error from handle_client, main's task
\* wrapper logs it.  (InReadErrorPropagates: the variant in which main awaits
\* handle_client with `?` and so returns on its error.)
InReadErrorPropagates(c) ==
    /\ serverUp
    /\ inPc[c] = "read"
    /\ inPc' = [inPc EXCEPT ![c] = "read_failed"]
    /\ serverUp' = FALSE
    /\ UNCHANGED cvars
    /\ UNCHANGED <<outPc, sub, next, cur, wlock, published, sendRet,
                   written>>

InReadError(c) ==
    /\ serverUp
    /\ inPc[c] = "read"
    /\ inPc' = [inPc EXCEPT ![c] = "read_failed"]
    /\ UNCHANGED cvars
    /\ UNCHANGED <<serverUp, outPc, sub, next, cur, wlock, published,
                   sendRet, written>>

(***************************************************************************)
(* Server: handle_client, the spawned outbound task.                       *)
(***************************************************************************)
\* What the `while let Ok(msg)` loop does when recv returns Err(Lagged(n)):
\* the pattern does not match, the loop and the task end, rx is dropped.
OnLagged(c) == outPc' = [outPc EXCEPT ![c] = "lagged"]

\* rx.recv().await completes: Ok(msg), or Err(Lagged) when the Receiver has
\* been overrun.  (Err(Closed) needs every Sender dropped; main holds one.)
\* (OutRecvSkipsOwn: the variant of a channel that does not hand a connection
\* the lines it has sent itself.)
OutRecvSkipsOwn(c) ==
    /\ serverUp
    /\ outPc[c] = "recv"
    /\ IF RecvLagged(next[c])
       THEN /\ next' = [next EXCEPT ![c] = LagNext(@)]
            /\ OnLagged(c)
            /\ cur' = cur
       ELSE /\ RecvReady(next[c])
            /\ next' = [next EXCEPT ![c] = RecvNext(@)]
            /\ IF published[next[c] + 1].from = c
               THEN UNCHANGED <<cur, outPc>>
               ELSE /\ cur' = [cur EXCEPT ![c] = [pos |-> next[c] + 1,
                                                  msg |-> RecvMsg(next[c])]]
                    /\ outPc' = [outPc EXCEPT ![c] = "lock"]
    /\ UNCHANGED cvars
    /\ UNCHANGED <<serverUp, inPc, sub, wlock, published, sendRet,
                   written>>

OutRecv(c) ==
    /\ serverUp
    /\ outPc[c] = "recv"
    /\ IF RecvLagged(next[c])
       THEN /\ next' = [next EXCEPT ![c] = LagNext(@)]
            /\ OnLagged(c)
            /\ cur' = cur
       ELSE /\ RecvReady(next[c])
            /\ cur' = [cur EXCEPT ![c] = [pos |-> next[c] + 1,
                                          msg |-> RecvMsg(next[c])]]
            /\ next' = [next EXCEPT ![c] = RecvNext(@)]
            /\ outPc' = [outPc EXCEPT ![c] = "lock"]
    /\ UNCHANGED cvars
    /\ UNCHANGED <<serverUp, inPc, sub, wlock, published, sendRet,
                   written>>

\* writer_clone.lock().await
\* (OutLockSkipped: the variant that writes without taking the Mutex.)
OutLockSkipped(c) ==
    /\ serverUp
    /\ outPc[c] = "lock"
    /\ outPc' = [outPc EXCEPT ![c] = "write"]
    /\ UNCHANGED cvars
    /\ UNCHANGED <<serverUp, inPc, sub, next, cur, wlock, published,
                   sendRet, written>>

OutLock(c) ==
    /\ serverUp
    /\ outPc[c] = "lock"
    /\ ~wlock[c]
    /\ wlock' = [wlock EXCEPT ![c] = TRUE]
    /\ outPc' = [outPc EXCEPT ![c] = "write"]
    /\ UNCHANGED cvars
    /\ UNCHANGED <<serverUp, inPc, sub, next, cur, published,
                   sendRet, written>>

\* The bytes one outbound iteration writes: msg.as_bytes().
OutBytes(c) == cur[c].msg

\* write_all succeeds; the guard is dropped at the end of the iteration.
OutWrite(c) ==
    /\ serverUp
    /\ outPc[c] = "write"
    /\ written' = [written EXCEPT
                     ![c] = Append(@, [pos |-> cur[c].pos,
                                       bytes |-> OutBytes(c)])]
    /\ wlock' = [wlock EXCEPT ![c] = FALSE]
    /\ outPc' = [outPc EXCEPT ![c] = "recv"]
    /\ UNCHANGED cvars
    /\ UNCHANGED <<serverUp, inPc, sub, next, cur, published,
                   sendRet>>

\* write_all fails: break; the task ends, guard and rx are dropped.
OutWriteError(c) ==
    /\ serverUp
    /\ outPc[c] \in {"write", "blocked"}
    /\ wlock' = [wlock EXCEPT ![c] = FALSE]
    /\ outPc' = [outPc EXCEPT ![c] = "write_failed"]
    /\ UNCHANGED cvars
    /\ UNCHANGED <<serverUp, inPc, sub, next, cur, published,
                   sendRet, written>>

\* The peer of connection c stops reading its socket: the pending write_all
\* never completes and the task stays suspended in it, holding the guard.
PeerStall(c) ==
    /\ serverUp
    /\ outPc[c] = "write"
    /\ outPc' = [outPc EXCEPT ![c] = "blocked"]
    /\ UNCHANGED cvars
    /\ UNCHANGED <<serverUp, inPc, sub, next, cur, wlock, published,
                   sendRet, written>>

(***************************************************************************)
(* Client: text.                                                           *)
(***************************************************************************)
IsSpace(ch) == ch \in {" ", NL, "\t", "\r"}

\* str::trim: leading and trailing whitespace removed.
RECURSIVE TrimStart(_)
TrimStart(t) ==
    IF t # <<>> /\ IsSpace(Head(t)) THEN TrimStart(Tail(t)) ELSE t

RECURSIVE TrimEnd(_)
TrimEnd(t) ==
    IF t # <<>> /\ IsSpace(t[Len(t)])
    THEN TrimEnd(SubSeq(t, 1, Len(t) - 1))
    ELSE t

Trim(t) == TrimEnd(TrimStart(t))

\* The stdin-reader's test of a line: input.trim().is_empty() => continue.
Skipped(line) == Trim(line) = <<>>

(***************************************************************************)
(* Client: main and its two tasks.                                         *)
(***************************************************************************)
CInit ==
    /\ clientUp = TRUE
    /\ stdinPc = "read"
    /\ input = <<>>
    /\ queue = <<>>
    /\ senderPc = "recv"
    /\ msg = <<>>
    /\ readerPc = "read"
    /\ typed = <<>>
    /\ handed = <<>>
    /\ sent = <<>>
    /\ printed = <<>>

\* The sender task holds rx: the channel is open while it runs.
\* (QueueOpenWhileMainRuns: the variant in which main keeps rx and lends it
\* to the sender, so that the channel outlives the sender.)
QueueOpenWhileMainRuns == clientUp
QueueOpen == senderPc \in {"recv", "write", "flush"}

\* stdin.read_line returns Ok(n), n > 0.
StdinRead(line) ==
    /\ clientUp
    /\ stdinPc = "read"
    /\ typed' = Append(typed, line)
    /\ IF Skipped(line)
       THEN UNCHANGED <<stdinPc, input, handed>>
       ELSE /\ stdinPc' = "send"
            /\ input' = line
            /\ handed' = Append(handed, line)
    /\ UNCHANGED <<clientUp, queue, senderPc, msg, readerPc, sent, printed>>
    /\ UNCHANGED svars

\* tx.send(input.clone()).await completes: the line is queued, or the
\* channel is closed and the task breaks.  It waits while the queue is full.
\* (StdinSendDrops: the variant with try_send, which gives up a line that
\* finds the queue full; StdinSendUnbounded: the variant with an unbounded
\* channel, whose send never waits.)
StdinSendUnbounded ==
    /\ clientUp
    /\ stdinPc = "send"
    /\ IF QueueOpen
       THEN /\ queue' = Append(queue, input)
            /\ stdinPc' = "read"
       ELSE /\ queue' = queue
            /\ stdinPc' = "closed"
    /\ input' = <<>>
    /\ UNCHANGED <<clientUp, senderPc, msg, readerPc, typed, handed, sent,
                   printed>>
    /\ UNCHANGED svars

StdinSendDrops ==
    /\ clientUp
    /\ stdinPc = "send"
    /\ IF QueueOpen
       THEN /\ queue' = IF Len(queue) < QueueCapacity
                         THEN Append(queue, input)
                         ELSE queue
            /\ stdinPc' = "read"
       ELSE /\ queue' = queue
            /\ stdinPc' = "closed"
    /\ input' = <<>>
    /\ UNCHANGED <<clientUp, senderPc, msg, readerPc, typed, handed, sent,
                   printed>>
    /\ UNCHANGED svars

StdinSend ==
    /\ clientUp
    /\ stdinPc = "send"
    /\ IF QueueOpen
       THEN /\ Len(queue) < QueueCapacity
            /\ queue' = Append(queue, input)
            /\ stdinPc' = "read"
       ELSE /\ queue' = queue
            /\ stdinPc' = "closed"
    /\ input' = <<>>
    /\ UNCHANGED <<clientUp, senderPc, msg, readerPc, typed, handed, sent,
                   printed>>
    /\ UNCHANGED svars

\* stdin.read_line returns Ok(0): break.  (StdinEofExits: the variant in
\* which main awaits the stdin-reader and returns when it ends.)
StdinEofExits ==
    /\ clientUp
    /\ stdinPc = "read"
    /\ stdinPc' = "eof"
    /\ clientUp' = FALSE
    /\ UNCHANGED <<input, queue, senderPc, msg, readerPc, typed,
                   handed, sent, printed>>
    /\ UNCHANGED svars

StdinEof ==
    /\ clientUp
    /\ stdinPc = "read"
    /\ stdinPc' = "eof"
    /\ UNCHANGED <<clientUp, input, queue, senderPc, msg, readerPc, typed,
                   handed, sent, printed>>
    /\ UNCHANGED svars

\* stdin.read_line returns Err: the error is printed, break.
StdinError ==
    /\ clientUp
    /\ stdinPc = "read"
    /\ stdinPc' = "failed"
    /\ UNCHANGED <<clientUp, input, queue, senderPc, msg, readerPc, typed,
                   handed, sent, printed>>
    /\ UNCHANGED svars

\* rx.recv().await returns Some(msg).  (None needs every Sender dropped; main
\* holds one until it returns.)
SenderRecv ==
    /\ clientUp
    /\ senderPc = "recv"
    /\ queue # <<>>
    /\ msg' = Head(queue)
    /\ queue' = Tail(queue)
    /\ senderPc' = "write"
    /\ UNCHANGED <<clientUp, stdinPc, input, readerPc, typed, handed, sent,
                   printed>>
    /\ UNCHANGED svars

\* writer.write_all(msg.as_bytes()) succeeds.
SenderWrite ==
    /\ clientUp
    /\ senderPc = "write"
    /\ sent' = Append(sent, msg)
    /\ senderPc' = "flush"
    /\ UNCHANGED <<clientUp, stdinPc, input, queue, msg, readerPc, typed,
                   handed, printed>>
    /\ UNCHANGED svars

\* writer.flush() succeeds.
SenderFlush ==
    /\ clientUp
    /\ senderPc = "flush"
    /\ senderPc' = "recv"
    /\ UNCHANGED <<clientUp, stdinPc, input, queue, msg, readerPc, typed,
                   handed, sent, printed>>
    /\ UNCHANGED svars

\* write_all or flush fails: the error is printed, break; rx and the writer
\* are dropped.  (SenderErrorExits: the variant in which the error is returned
\* from main with `?`.)
SenderErrorExits ==
    /\ clientUp
    /\ senderPc \in {"write", "flush"}
    /\ senderPc' = "failed"
    /\ queue' = <<>>
    /\ clientUp' = FALSE
    /\ UNCHANGED <<stdinPc, input, msg, readerPc, typed, handed,
                   sent, printed>>
    /\ UNCHANGED svars

SenderError ==
    /\ clientUp
    /\ senderPc \in {"write", "flush"}
    /\ senderPc' = "failed"
    /\ queue' = <<>>
    /\ UNCHANGED <<clientUp, stdinPc, input, msg, readerPc, typed, handed,
                   sent, printed>>
    /\ UNCHANGED svars

\* reader.read_line returns a line of the server: print!("{}", buffer).
ReaderLine(line) ==
    /\ clientUp
    /\ readerPc = "read"
    /\ printed' = Append(printed, line)
    /\ UNCHANGED <<clientUp, stdinPc, input, queue, senderPc, msg, readerPc,
                   typed, handed, sent>>
    /\ UNCHANGED svars

\* The notice printed on end of stream.
ClosedNotice == <<"S", "e", "r", "v", "e", "r", " ", "c", "l", "o", "s", "e",
                  "d", " ", "t", "h", "e", " ", "c", "o", "n", "n", "e", "c",
                  "t", "i", "o", "n", ".", NL>>

\* reader.read_line returns 0 bytes: the notice is printed, break, main
\* returns Ok(()) and the runtime is dropped: both tasks are cancelled at
\* their await.  (tokio::io::stdin reads on a thread of the blocking pool;
\* that read cannot be cancelled, see BlockingReadReturns.)
ReaderEof ==
    /\ clientUp
    /\ readerPc = "read"
    /\ printed' = Append(printed, ClosedNotice)
    /\ readerPc' = "eof"
    /\ clientUp' = FALSE
    /\ UNCHANGED <<stdinPc, input, queue, senderPc, msg, typed, handed, sent>>
    /\ UNCHANGED svars

\* reader.read_line fails: `?` returns the error from main.
ReaderError ==
    /\ clientUp
    /\ readerPc = "read"
    /\ readerPc' = "failed"
    /\ clientUp' = FALSE
    /\ UNCHANGED <<stdinPc, input, queue, senderPc, msg, typed, handed, sent,
                   printed>>
    /\ UNCHANGED svars

\* After main has returned: dropping the runtime joins the threads of the
\* blocking pool, so it waits for the read of standard input that the
\* stdin-reader had started, until that read returns (a line is typed or
\* standard input ends).  The line is discarded with the cancelled task.
BlockingReadReturns ==
    /\ ~clientUp
    /\ stdinPc = "read"
    /\ stdinPc' = "dropped"
    /\ UNCHANGED <<clientUp, input, queue, senderPc, msg, readerPc, typed,
                   handed, sent, printed>>
    /\ UNCHANGED svars

\* The process has exited: main has returned and the drop of the runtime has
\* completed (no read of standard input is pending on the blocking pool).
Exited == ~clientUp /\ stdinPc # "read"

(***************************************************************************)
(* Specifications of the server.                                           *)
(***************************************************************************)
\* The k-th line typed in a long run.
LagScript(k) == IF k % 2 = 0 THEN <<"h", NL>> ELSE <<NL>>

Init == SInit /\ CInit

SessionStep(c) ==
    \/ InEof(c)
    \/ InReadError(c)
    \/ OutRecv(c)
    \/ OutLock(c)
    \/ OutWrite(c)
    \/ OutWriteError(c)
    \/ PeerStall(c)

Next ==
    \/ \E c \in SmallConns : Accept(c)
    \/ AcceptError
    \/ \E c \in SmallConns, l \in Lines : HubTail < MaxPublish /\ InRead(c, l)
    \/ \E c \in SmallConns : SessionStep(c)

Spec == Init /\ [][Next]_vars

\* The runtime polls every task that is ready: a loop that can take its next
\* step takes it.  Nothing obliges a peer to send, to close or to fail.
Fairness ==
    \A c \in Conns :
        /\ WF_vars(OutRecv(c))
        /\ WF_vars(OutLock(c))
        /\ WF_vars(OutWrite(c))

FairSpec == Spec /\ Fairness

OutStep(c) ==
    \/ OutRecv(c)
    \/ OutLock(c)
    \/ OutWrite(c)
    \/ OutWriteError(c)
    \/ PeerStall(c)

\* Long runs: two connections, accepted at any time; the first one types
\* LagScript and both keep their connection open.
NextLag ==
    \/ \E c \in LagConns : Accept(c)
    \/ HubTail < MaxPublishLag /\ InRead(1, LagScript(HubTail))
    \/ \E c \in LagConns : OutStep(c)

LagSpec == Init /\ [][NextLag]_vars

\* Long runs in which both clients stay connected: they connect, then the
\* first one types LagScript and keeps reading its socket; the socket of a
\* listener may stall or fail.
NextFairLag ==
    \/ \E c \in LagConns : Accept(c)
    \/ /\ \A c \in LagConns : inPc[c] # "idle"
       /\ HubTail < MaxPublishLag
       /\ InRead(1, LagScript(HubTail))
    \/ OutRecv(1) \/ OutLock(1) \/ OutWrite(1)
    \/ \E c \in Listeners : OutStep(c)

FairLagSpec == Init /\ [][NextFairLag]_vars /\ Fairness

\* Long runs of three clients that stay connected: they connect, then the
\* first one types LagScript; the second one may stop reading its socket.
NextIso ==
    \/ \E c \in Conns : Accept(c)
    \/ /\ \A c \in Conns : inPc[c] # "idle"
       /\ HubTail < MaxPublishLag
       /\ InRead(1, LagScript(HubTail))
    \/ \E c \in Conns : OutRecv(c) \/ OutLock(c) \/ OutWrite(c)
    \/ PeerStall(2)

IsoSpec == Init /\ [][NextIso]_vars

(***************************************************************************)
(* Specification of the client.                                            *)
(***************************************************************************)
NextClient ==
    \/ \E l \in TypedLines : Len(typed) < MaxTyped /\ StdinRead(l)
    \/ StdinSend
    \/ StdinEof
    \/ StdinError
    \/ SenderRecv
    \/ SenderWrite
    \/ SenderFlush
    \/ SenderError
    \/ \E l \in Lines : Len(printed) < MaxServerLines /\ ReaderLine(l)
    \/ ReaderEof
    \/ ReaderError
    \/ BlockingReadReturns

ClientSpec == Init /\ [][NextClient]_vars

\* The runtime polls every task that is ready.  Nothing obliges the user to
\* type, standard input to end, or the server to send or to close.
ClientFairness ==
    /\ WF_vars(StdinSend)
    /\ WF_vars(SenderRecv)
    /\ WF_vars(SenderWrite)
    /\ WF_vars(SenderFlush)

FairClientSpec == ClientSpec /\ ClientFairness

\* The k-th line typed in a long run of the client: every fourth line is
\* blank, the others alternate.
TypedScript(k) ==
    IF k % 4 = 3 THEN <<" ", NL>>
    ELSE IF k % 2 = 0 THEN <<"h", NL>> ELSE <<"i", NL>>

\* Long runs of the client: the user types TypedScript.
NextClientLong ==
    \/ Len(typed) < MaxTypedLong /\ StdinRead(TypedScript(Len(typed)))
    \/ StdinSend
    \/ StdinEof
    \/ StdinError
    \/ SenderRecv
    \/ SenderWrite
    \/ SenderFlush
    \/ SenderError
    \/ Len(printed) < MaxServerLines /\ ReaderLine(<<"h", NL>>)
    \/ ReaderEof
    \/ ReaderError
    \/ BlockingReadReturns

LongClientSpec == Init /\ [][NextClientLong]_vars /\ ClientFairness

(***************************************************************************)
(* Properties of the server.                                               *)
(***************************************************************************)
OutEnded(c) == outPc[c] \in {"lagged", "write_failed"}
InEnded(c) == inPc[c] \in {"eof", "read_failed", "send_failed"}

\* Message number i of the channel has been written to connection b, in a
\* line that contains the line as it was read.
Delivered(b, i) ==
    \E k \in 1..Len(written[b]) :
        /\ written[b][k].pos = i
        /\ Contains(written[b][k].bytes, published[i].line)

\* Message number i was sent by another connection while b was subscribed.
PublishedFor(b, i) ==
    /\ i <= HubTail
    /\ inPc[b] # "idle"
    /\ sub[b] < i
    /\ published[i].from # b

\* The socket of b has stopped taking writes (peer gone or not reading).
SocketRefuses(b) == outPc[b] \in {"write_failed", "blocked"}

\* C1 (as claimed): every line published by a connection other than b while
\* b is subscribed is eventually written to b in a line containing it,
\* unless b's socket stops accepting writes.
C1_EchoFidelity ==
    \A b \in Listeners, i \in 1..MaxPublishLag :
        PublishedFor(b, i) ~> (Delivered(b, i) \/ SocketRefuses(b))

\* C1 (amended): every line published by a connection other than b while b
\* is subscribed is eventually written to b in a line containing it, unless
\* b's socket stops accepting writes or b's Receiver is overrun (it fell
\* behind by more than the channel retains).
C1_EchoFidelityUnlessLagged ==
    \A b \in Listeners, i \in 1..MaxPublishLag :
        PublishedFor(b, i)
            ~> (Delivered(b, i) \/ SocketRefuses(b) \/ outPc[b] = "lagged")

C1_Witness ==
    \E b \in Listeners, i \in 1..MaxPublishLag :
        PublishedFor(b, i) /\ Delivered(b, i)

\* C2: what a connection's outbound loop has written is a subsequence of the
\* channel's send sequence: every written message is the message at its
\* channel position, and positions strictly increase (no reordering, no
\* message twice).
C2_WrittenInPublishOrder ==
    \A c \in Conns :
        \A k \in 1..Len(written[c]) :
            /\ written[c][k].pos \in 1..HubTail
            /\ written[c][k].bytes = published[written[c][k].pos].line
            /\ k > 1 => written[c][k - 1].pos < written[c][k].pos

\* Two lines sent back-to-back by connection 1 have both reached another
\* connection, in that order.
C2_Witness ==
    \E c \in Conns \ {1} :
        /\ Len(written[c]) >= 2
        /\ written[c][1].pos + 1 = written[c][2].pos
        /\ published[written[c][1].pos].from = 1
        /\ published[written[c][2].pos].from = 1
        /\ written[c][1].bytes # written[c][2].bytes

\* C3 (as claimed): a recv that yields Lagged leaves the outbound loop
\* running: the loop continues with the next recv.
C3_LaggedLoopContinues ==
    [][\A c \in Conns :
          (outPc[c] = "recv" /\ RecvLagged(next[c]) /\ outPc'[c] # "recv")
              => FALSE]_vars

\* C4 (as claimed): every message written to a client is
\* "[<peer-address>]: <line>" for the connection that sent the line.
C4_BroadcastFormat ==
    \A c \in Conns :
        \A k \in 1..Len(written[c]) :
            written[c][k].bytes =
                Format(published[written[c][k].pos].from,
                       published[written[c][k].pos].line)

\* C6 (as claimed): once the inbound loop of a connection has ended, its
\* outbound task eventually ends too (its Receiver and writer are dropped).
C6_InboundEndEndsOutbound ==
    \A c \in SmallConns : InEnded(c) ~> OutEnded(c)

\* C7 (as claimed): once the outbound task of a connection has ended, its
\* inbound loop publishes no further message.
C7_NoPublishAfterOutboundEnd ==
    [][\A c \in Conns :
          OutEnded(c) =>
              ~(Len(published') > Len(published)
                  /\ published'[Len(published')].from = c)]_vars

C10_FailureIsolation ==
    [][\A c \in Conns :
          (\/ inPc[c] = "read" /\ InEnded(c)'
           \/ Running(c) /\ OutEnded(c)')
              => /\ serverUp'
                 /\ published' = published
                 /\ \A d \in Conns \ {c} :
                        /\ inPc'[d] = inPc[d]
                        /\ outPc'[d] = outPc[d]
                        /\ next'[d] = next[d]
                        /\ written'[d] = written[d]]_vars

\* One connection has failed; another one, accepted before or after, is
\* still served: it has published and it has been written to.
C10_Witness ==
    \E c, d \in Conns :
        /\ c # d
        /\ inPc[c] = "read_failed"
        /\ outPc[c] = "write_failed"
        /\ serverUp
        /\ inPc[d] = "read"
        /\ Running(d)
        /\ \E k \in 1..Len(written[d]) :
               /\ published[written[d][k].pos].from = d
               /\ written[d][k].pos > next[c]

\* Message number i is written to c, or is still ahead of c's running
\* outbound task (which has skipped nothing).
InOrderFor(c, i) ==
    \/ Delivered(c, i)
    \/ /\ Running(c)
       /\ \/ next[c] < i
          \/ cur[c].pos = i /\ outPc[c] \in {"lock", "write"}

\* Connections a, b, c: b is blocked in a write, message number i was sent by
\* a while c was subscribed, and c's socket takes writes.
IsoCase(a, b, c, i) ==
    /\ a # b /\ a # c /\ b # c
    /\ outPc[b] = "blocked"
    /\ i <= HubTail
    /\ published[i].from = a
    /\ inPc[c] # "idle"
    /\ sub[c] < i
    /\ ~SocketRefuses(c)

\* What c has written is the unbroken run of messages from its subscription.
Unbroken(c) == \A k \in 1..Len(written[c]) : written[c][k].pos = sub[c] + k

C12_SelfEcho ==
    \A i \in 1..HubTail :
        /\ sub[published[i].from] < i
        /\ (Running(published[i].from) /\ next[published[i].from] >= i)
               => \/ Delivered(published[i].from, i)
                  \/ /\ cur[published[i].from].pos = i
                     /\ outPc[published[i].from] \in
                            {"lock", "write", "blocked"}

\* A connection has been written two lines it sent itself, and its outbound
\* loop is running.
C12_Witness ==
    \E c \in Conns :
        /\ Running(c)
        /\ Len(written[c]) >= 2
        /\ \A k \in 1..2 :
               /\ published[written[c][k].pos].from = c
               /\ written[c][k].bytes = published[written[c][k].pos].line

\* C13: the Receiver of a connection starts at the tail of the channel at
\* the moment of its accept: nothing is written to a connection that is not
\* accepted, and every message written to it was sent after its accept.
C13_SubscriptionStartsNow ==
    \A c \in Conns :
        /\ inPc[c] = "idle" => written[c] = <<>> /\ next[c] = 0
        /\ inPc[c] # "idle" => sub[c] <= next[c]
        /\ \A k \in 1..Len(written[c]) : written[c][k].pos > sub[c]

\* A connection accepted after a line was sent has been written a later
\* line, and not the earlier one.
C13_Witness ==
    \E c \in Conns :
        /\ sub[c] > 0
        /\ written[c] # <<>>
        /\ outPc[c] = "recv"
        /\ next[c] = HubTail

\* C18: the writer Mutex of a connection is held exactly while its outbound
\* task is in write_all (the connection's only writing activity, so there is
\* never a second holder); the Mutex is taken only when free; and a step that
\* puts bytes on a connection's socket puts one whole message there, with
\* the Mutex held before the step and released by it.
C18_WriteHalfExclusion ==
    /\ [](\A c \in Conns : wlock[c] <=> outPc[c] \in {"write", "blocked"})
    /\ [][\A c \in Conns :
             written'[c] # written[c]
                 => /\ wlock[c] /\ ~wlock'[c]
                    /\ written'[c] =
                           Append(written[c],
                                  [pos |-> cur[c].pos,
                                   bytes |-> published[cur[c].pos].line])]_vars

\* Two connections hold their own Mutex at the same time, each inside the
\* write of a message, and one of them has completed a write before.
C18_Witness ==
    \E c, d \in Conns :
        /\ c # d
        /\ wlock[c] /\ outPc[c] = "write"
        /\ wlock[d] /\ outPc[d] = "write"
        /\ written[c] # <<>>

\* C19 (as claimed): the channel never holds more than 10 values for the
\* Receiver of a running outbound task: beyond 10 unread values the oldest
\* are dropped.
C19_BacklogBound ==
    \A c \in Conns :
        Running(c) => Cardinality(Retained(next[c])) <= HubCapacity

(***************************************************************************)
(* Properties of the client.                                               *)
(***************************************************************************)
\* C5 (as claimed): no line read from standard input is filtered out: every
\* line read, an empty one included, is passed to the outbound queue.
C5_EveryLineForwarded == handed = typed

\* The line the sender has taken from the queue and not yet written.
InFlight == IF senderPc = "write" THEN <<msg>> ELSE <<>>

\* The line the stdin-reader holds in a tx.send that has not completed.
Pending == IF stdinPc = "send" THEN <<input>> ELSE <<>>

IsPrefix(s, t) == Len(s) <= Len(t) /\ SubSeq(t, 1, Len(s)) = s

\* C14: the lines written to the server are a prefix of the lines passed to
\* the queue, in order; while the sender runs, the lines passed to the queue
\* are exactly the lines written, the one being written, the queue and the
\* one waiting for room (none dropped, overwritten or written twice); and
\* while the sender runs every line passed to the queue is eventually
\* written.
C14_SendOrderNoLoss ==
    /\ [](IsPrefix(sent, handed))
    /\ [](QueueOpen => handed = sent \o InFlight \o queue \o Pending)
    /\ \A k \in 1..MaxTypedLong :
           (Len(handed) >= k) ~> (Len(sent) >= k \/ ~QueueOpen \/ ~clientUp)

\* The stdin-reader waits with a line on a full queue, behind a sender that
\* has written a line and is writing the next.
C14_Witness ==
    /\ Len(sent) >= 1
    /\ Len(queue) = QueueCapacity
    /\ stdinPc = "send"
    /\ senderPc = "write"
    /\ clientUp

\* C15: the queue between the stdin-reader and the sender never holds more
\* than 10 messages.
C15_QueueBounded == Len(queue) <= QueueCapacity

\* The queue holds 10 messages and the stdin-reader waits with one more,
\* while the sender has not taken any.
C15_Witness ==
    /\ Len(queue) = QueueCapacity
    /\ Pending # <<>>
    /\ senderPc = "recv"
    /\ sent = <<>>

\* C16: the step in which the stdin-reader reads end of input ends the
\* stdin-reader and changes nothing else: main keeps running, the queue, the
\* sender and the connection-reader are as they were; afterwards the
\* connection-reader still reads, and every line passed to the queue is
\* still written unless the sender ends or main returns.
C16_StdinEofEndsStdinOnly ==
    /\ [][(stdinPc = "read" /\ stdinPc' = "eof")
            => UNCHANGED <<clientUp, queue, senderPc, msg, readerPc, sent,
                           printed>>]_vars
    /\ []((stdinPc = "eof" /\ clientUp) => readerPc = "read")
    /\ \A k \in 1..MaxTypedLong :
           (stdinPc = "eof" /\ Len(handed) >= k)
               ~> (Len(sent) >= k \/ ~QueueOpen \/ ~clientUp)

\* Standard input has ended with lines still queued; since then the sender
\* has written a line and the connection-reader has printed one.
C16_Witness ==
    /\ stdinPc = "eof"
    /\ clientUp
    /\ Len(queue) >= 2
    /\ senderPc = "flush"
    /\ Len(sent) >= 1
    /\ Len(printed) >= 1

\* C17: the step in which write_all or flush fails ends the sender and
\* leaves main, the connection-reader, what is printed and the stdin-reader
\* as they were; with the sender ended the connection-reader still reads;
\* and main returns only in a step in which the connection-reader reads end
\* of stream or fails.
C17_SenderErrorEndsSenderOnly ==
    /\ [][(senderPc \in {"write", "flush"} /\ senderPc' = "failed")
            => UNCHANGED <<clientUp, readerPc, printed, stdinPc, sent>>]_vars
    /\ []((senderPc = "failed" /\ clientUp) => readerPc = "read")
    /\ [][(clientUp /\ ~clientUp')
            => (readerPc = "read" /\ readerPc' \in {"eof", "failed"})]_vars

\* The sender has failed; main is running and the connection-reader has
\* printed the server's lines.
C17_Witness ==
    /\ senderPc = "failed"
    /\ clientUp
    /\ readerPc = "read"
    /\ Len(printed) = MaxServerLines

\* C20: once the sender has ended on a write or flush error, nothing more
\* is written to the server and nothing more is queued; a send of the
\* stdin-reader, waiting for room or started afterwards, fails and ends the
\* stdin-reader, which therefore never waits for ever on the dead channel.
C20_StdinEndsAfterSender ==
    /\ [][senderPc = "failed"
            => /\ senderPc' = "failed"
               /\ sent' = sent
               /\ queue' = queue
               /\ stdinPc = "send" => stdinPc' \in {"send", "closed"}]_vars
    /\ (senderPc = "failed" /\ stdinPc = "send")
           ~> (stdinPc = "closed" \/ ~clientUp)

\* The sender failed behind a full queue; the stdin-reader's send has
\* failed and ended it: the twelve lines it had passed on after the last
\* line written are lost.
C20_Witness ==
    /\ senderPc = "failed"
    /\ stdinPc = "closed"
    /\ clientUp
    /\ Len(sent) >= 1
    /\ Len(handed) - Len(sent) >= QueueCapacity + 2

\* C11 (as claimed): once the connection-reader has read end of stream, the
\* disconnect notice is printed and the process eventually exits, whatever
\* the stdin-reader and the sender are doing.
C11_ExitOnServerClose ==
    (readerPc = "eof")
        ~> (Exited /\ printed # <<>> /\ printed[Len(printed)] = ClosedNotice)

====
